---- MODULE Spec2Model ----
(***************************************************************************)
(* hierconfig: nested dataclass schemas compiled to an argparse parser     *)
(* (flatten), the parsed namespace rebuilt into a nested dict (unflatten), *)
(* and the dict built into nested instances (from_dict / to_dict).         *)
(*                                                                         *)
(* Strings the code splits, joins or rewrites are sequences of one-letter  *)
(* strings, so that join, split and replace are computed, not assumed.     *)
(* Opaque leaf values (parsed tokens, defaults) are plain strings:         *)
(* "MISSING" is dataclasses.MISSING and "None" is Python's None.           *)
(***************************************************************************)
EXTENDS Integers, Sequences, FiniteSets, TLC

VARIABLES
    classes,    \* the schema classes made by @hierconfig, in declaration order
    pc,         \* "declare" until from_args / from_dict has been called
    call,       \* the last operation called
    err,        \* the exception that operation raised, "none" when it returned
    args,       \* the arguments registered on the parser, in registration order
    seen,       \* the seen set of the flattening pass
    ns,         \* vars(namespace).items(): <<key, value>> in iteration order
    cfgIn,      \* the map handed to from_dict, as it was before the call
    cfg,        \* that same map object after the call
    dicts,      \* the nested dicts from_dict went down into, by path, after the call
    inst,       \* the instance returned, NoValue when none was
    src,        \* the instance to_dict was called on
    out,        \* what _convert_namespace_to_dict returned
    shared,     \* the dict object that is config_field's default metadata
    made        \* the fields config_field returned, in call order

vars == <<classes, pc, call, err, args, seen, ns, cfgIn, cfg, dicts, inst, src, out,
          shared, made>>

----------------------------------------------------------------------------
(* Bounds of the model *)

MaxClasses == 3
MaxTotalFields == 3
MaxFlatFields == 2
MaxSupplied == 1
MaxItems == 3
MaxCalls == 3

----------------------------------------------------------------------------
(* Strings as sequences of characters *)

Dot == "."

Range(s) == {s[i] : i \in DOMAIN s}

\* str.replace(old, new) for one-character old and new
Replace(s, old, new) == [i \in DOMAIN s |-> IF s[i] = old THEN new ELSE s[i]]

\* sep.join(parts)
RECURSIVE Join(_, _)
Join(parts, sep) ==
    IF parts = <<>> THEN <<>>
    ELSE IF Len(parts) = 1 THEN parts[1]
    ELSE parts[1] \o <<sep>> \o Join(Tail(parts), sep)

\* s.split(sep): always at least one segment, empty segments kept
RECURSIVE SplitFrom(_, _, _)
SplitFrom(s, sep, cur) ==
    IF s = <<>> THEN <<cur>>
    ELSE IF Head(s) = sep THEN <<cur>> \o SplitFrom(Tail(s), sep, <<>>)
    ELSE SplitFrom(Tail(s), sep, Append(cur, Head(s)))

Split(s, sep) == SplitFrom(s, sep, <<>>)

----------------------------------------------------------------------------
(* Values: leaves, dicts and dataclass instances *)

\* one record shape for all: t the Python type, c the class of an instance,
\* v the content of a leaf, m the entries of a dict or the fields of an instance
Leaf(v) == [t |-> "leaf", c |-> 0, v |-> v, m |-> <<>>]
Map(m) == [t |-> "map", c |-> 0, v |-> "", m |-> m]
Instance(c, m) == [t |-> "inst", c |-> c, v |-> "", m |-> m]
NoValue == [t |-> "none", c |-> 0, v |-> "", m |-> <<>>]
EmptyMap == Map(<<>>)

IsMap(x) == x.t = "map"
IsInst(x) == x.t = "inst"
IsLeaf(x) == x.t = "leaf"

\* d[k] = x on a dict held as a function
Put(m, k, x) == [j \in DOMAIN m \cup {k} |-> IF j = k THEN x ELSE m[j]]

----------------------------------------------------------------------------
(* Schema classes: dataclasses.fields(cls) *)

FieldNames == {<<"a">>, <<"b">>, <<"x", "_", "y">>}

Fld(name, kind, cls, targs, default, factory) ==
    [name |-> name, kind |-> kind, cls |-> cls, targs |-> targs,
     default |-> default, default_factory |-> factory]

\* field.type is a ConfigBase subclass
is_config_class(field) == field.kind = "nested"

HasDefault(field) == field.default # "MISSING" \/ field.default_factory # "MISSING"

----------------------------------------------------------------------------
(* Flattening: the parser is [err, seen, args] threaded through the pass *)

NewParser == [err |-> "none", seen |-> {}, args |-> <<>>]

\* _get_flag: [err, seen, flag]
_get_flag(prefixes, field, seenIn) ==
    LET name == Replace(field.name, "_", "-")
    IN  IF name \in seenIn
        THEN IF Len(prefixes) = 0
             THEN [err |-> "AssertionError", seen |-> seenIn, flag |-> <<>>]
             ELSE LET q == Join(prefixes \o <<name>>, Dot)
                  IN  IF q \in seenIn
                      THEN [err |-> "AssertionError", seen |-> seenIn, flag |-> <<>>]
                      ELSE [err |-> "none", seen |-> seenIn \cup {q},
                            flag |-> <<"-", "-">> \o q]
        ELSE [err |-> "none", seen |-> seenIn \cup {name},
              flag |-> <<"-", "-">> \o name]

\* a bug: the prefixes are left out of the key
DestWithoutPrefixes(prefixes, field) == field.name

\* _get_dest
_get_dest(prefixes, field) ==
    IF Len(prefixes) > 0 THEN Join(prefixes \o <<field.name>>, Dot)
    ELSE field.name

\* _get_default
_get_default(field) ==
    IF field.default # "MISSING" THEN field.default
    ELSE IF field.default_factory # "MISSING" THEN field.default_factory
    ELSE "None"

\* _add_arg: the flag is taken (and seen updated) before add_argument
_add_arg(p, field, prefixes, nargs) ==
    LET f == _get_flag(prefixes, field, p.seen)
    IN  IF f.err # "none" THEN [p EXCEPT !.err = f.err]
        ELSE [p EXCEPT !.seen = f.seen,
                       !.args = Append(@, [flag |-> f.flag,
                                           dest |-> _get_dest(prefixes, field),
                                           default |-> _get_default(field),
                                           action |-> "store",
                                           nargs |-> nargs])]

_add_argument_default(p, field, prefixes) == _add_arg(p, field, prefixes, "1")

_add_argument_tuple(p, field, prefixes) ==
    IF Cardinality(Range(field.targs)) # 1 THEN [p EXCEPT !.err = "AssertionError"]
    ELSE _add_arg(p, field, prefixes, "n")

_add_argument_list(p, field, prefixes) ==
    IF Len(field.targs) # 1 THEN [p EXCEPT !.err = "AssertionError"]
    ELSE _add_arg(p, field, prefixes, "+")

\* _add_argument_bool: the assertion reads field.default, not _get_default
_add_argument_bool(p, field, prefixes) ==
    IF field.default = "None" THEN [p EXCEPT !.err = "AssertionError"]
    ELSE LET f == _get_flag(prefixes, field, p.seen)
         IN  IF f.err # "none" THEN [p EXCEPT !.err = f.err]
             ELSE [p EXCEPT !.seen = f.seen,
                            !.args = Append(@, [flag |-> f.flag,
                                                dest |-> _get_dest(prefixes, field),
                                                default |-> _get_default(field),
                                                action |-> "bool",
                                                nargs |-> "0"])]

_add_arg_by_type(p, field, prefixes) ==
    CASE field.kind = "bool" -> _add_argument_bool(p, field, prefixes)
      [] field.kind = "tuple" -> _add_argument_tuple(p, field, prefixes)
      [] field.kind = "list" -> _add_argument_list(p, field, prefixes)
      [] OTHER -> _add_argument_default(p, field, prefixes)

\* _add_arg_from_cls over the fields from index i on; an exception ends the pass
RECURSIVE AddFields(_, _, _, _)
AddFields(p, c, i, prefixes) ==
    IF p.err # "none" \/ i > Len(classes[c]) THEN p
    ELSE LET field == classes[c][i]
             q == IF is_config_class(field)
                  THEN AddFields(p, field.cls, 1, prefixes \o <<field.name>>)
                  ELSE _add_arg_by_type(p, field, prefixes)
         IN  AddFields(q, c, i + 1, prefixes)

_add_arg_from_cls(p, c, prefixes) == AddFields(p, c, 1, prefixes)

----------------------------------------------------------------------------
(* Parsing: what parse_args leaves in the namespace *)

\* setattr(namespace, key, value): a known key keeps its place
RECURSIVE SetAttr(_, _, _)
SetAttr(items, key, value) ==
    IF items = <<>> THEN <<<<key, value>>>>
    ELSE IF Head(items)[1] = key THEN <<<<key, value>>>> \o Tail(items)
    ELSE <<Head(items)>> \o SetAttr(Tail(items), key, value)

HasAttr(items, key) == \E i \in DOMAIN items : items[i][1] = key

\* every action's default is set first, in registration order
RECURSIVE SetDefaults(_, _, _)
SetDefaults(items, registered, i) ==
    IF i > Len(registered) THEN items
    ELSE SetDefaults(IF HasAttr(items, registered[i].dest) THEN items
                     ELSE SetAttr(items, registered[i].dest, Leaf(registered[i].default)),
                     registered, i + 1)

\* then every supplied flag stores its value; argv maps the index of a
\* registered argument to the value its tokens were converted to
RECURSIVE StoreSupplied(_, _, _, _)
StoreSupplied(items, registered, argv, i) ==
    IF i > Len(registered) THEN items
    ELSE StoreSupplied(IF i \in DOMAIN argv
                       THEN SetAttr(items, registered[i].dest, Leaf(argv[i]))
                       ELSE items,
                       registered, argv, i + 1)

parse_args(registered, argv) ==
    StoreSupplied(SetDefaults(<<>>, registered, 1), registered, argv, 1)

----------------------------------------------------------------------------
(* Unflattening: _convert_namespace_to_dict *)

Ok(x) == [err |-> "none", val |-> x]
Raise(e) == [err |-> e, val |-> NoValue]

\* a bug: the intermediate dict is made anew even when the key is there
ChildAlwaysNew(inner, each) == EmptyMap

\* if each not in inner: inner[each] = {}; then inner[each]
Child(inner, each) == IF each \in DOMAIN inner.m THEN inner.m[each] ELSE EmptyMap

\* the while loop over prefixes and the final inner[name] = value; item
\* assignment and the in test raise TypeError on anything but a dict
RECURSIVE SetPath(_, _, _, _)
SetPath(inner, prefixes, name, value) ==
    IF ~IsMap(inner) THEN Raise("TypeError")
    ELSE IF prefixes = <<>> THEN Ok(Map(Put(inner.m, name, value)))
    ELSE LET each == Head(prefixes)
             child == Child(inner, each)
             r == SetPath(child, Tail(prefixes), name, value)
         IN  IF r.err # "none" THEN r
             ELSE Ok(Map(Put(inner.m, each, r.val)))

RECURSIVE ConvertFrom(_, _, _)
ConvertFrom(config, items, i) ==
    IF i > Len(items) THEN Ok(config)
    ELSE LET parts == Split(items[i][1], Dot)
             r == SetPath(config, SubSeq(parts, 1, Len(parts) - 1),
                          parts[Len(parts)], items[i][2])
         IN  IF r.err # "none" THEN r
             ELSE ConvertFrom(r.val, items, i + 1)

_convert_namespace_to_dict(items) == ConvertFrom(EmptyMap, items, 1)

----------------------------------------------------------------------------
(* Building: from_dict, the generated constructor, to_dict *)

\* inner: the dict objects below config that the call worked on, by path
Built(e, i, c) == [err |-> e, inst |-> i, cfg |-> c, inner |-> <<>>]

\* the dicts worked on so far, and those of the call made for field name
Under(d, name, sub) ==
    [q \in DOMAIN d \cup {<<name>>} \cup {<<name>> \o r : r \in DOMAIN sub.inner} |->
         IF q = <<name>> THEN sub.cfg
         ELSE IF q \in DOMAIN d THEN d[q]
         ELSE sub.inner[Tail(q)]]

FieldNamesOf(c) == {classes[c][i].name : i \in DOMAIN classes[c]}

FieldNamed(c, n) == classes[c][CHOOSE i \in DOMAIN classes[c] : classes[c][i].name = n]

\* cls(**config): the dataclass __init__
Construct(c, config) ==
    IF ~IsMap(config) THEN Built("TypeError", NoValue, config)
    ELSE IF \E k \in DOMAIN config.m : k \notin FieldNamesOf(c)
    THEN Built("TypeError", NoValue, config)
    ELSE IF \E n \in FieldNamesOf(c) :
                n \notin DOMAIN config.m /\ ~HasDefault(FieldNamed(c, n))
    THEN Built("TypeError", NoValue, config)
    ELSE Built("none",
               Instance(c, [n \in FieldNamesOf(c) |->
                                IF n \in DOMAIN config.m THEN config.m[n]
                                ELSE Leaf(_get_default(FieldNamed(c, n)))]),
               config)

\* from_dict from field i on: config is the caller's dict, updated in place;
\* when a nested call raises, the entry is still the dict it was given, as
\* far as that call changed it
RECURSIVE FromDictFrom(_, _, _, _)
FromDictFrom(c, config, i, d) ==
    IF i > Len(classes[c]) THEN [Construct(c, config) EXCEPT !.inner = d]
    ELSE LET field == classes[c][i]
         IN  IF ~is_config_class(field) THEN FromDictFrom(c, config, i + 1, d)
             ELSE IF ~IsMap(config)
             THEN [Built("TypeError", NoValue, config) EXCEPT !.inner = d]
             ELSE IF field.name \notin DOMAIN config.m
             THEN [Built("KeyError", NoValue, config) EXCEPT !.inner = d]
             ELSE LET sub == FromDictFrom(field.cls, config.m[field.name], 1, <<>>)
                  IN  IF sub.err # "none"
                      THEN [Built(sub.err, NoValue,
                                  Map(Put(config.m, field.name, sub.cfg)))
                                EXCEPT !.inner = Under(d, field.name, sub)]
                      ELSE FromDictFrom(c, Map(Put(config.m, field.name, sub.inst)),
                                        i + 1, Under(d, field.name, sub))

\* a bug: from_dict builds from a copy and leaves the caller's dict alone
FromDictOfCopy(c, config) == [FromDictFrom(c, config, 1, <<>>) EXCEPT !.cfg = config]

from_dict(c, config) == FromDictFrom(c, config, 1, <<>>)

RECURSIVE to_dict(_)

\* a bug: only the top level is copied, nested instances stay instances
ToDictShallow(x) == Map(x.m)

\* to_dict: dataclasses.asdict copies instances and dicts into fresh dicts
to_dict(x) ==
    IF IsInst(x) \/ IsMap(x) THEN Map([k \in DOMAIN x.m |-> to_dict(x.m[k])])
    ELSE x

----------------------------------------------------------------------------
(* Declaring schema classes: @hierconfig makes a dataclass of the fields *)

TotalFields ==
    LET RECURSIVE Sum(_)
        Sum(i) == IF i = 0 THEN 0 ELSE Len(classes[i]) + Sum(i - 1)
    IN  Sum(Len(classes))

\* make_dataclass: names differ, no field without default after a default
WellFormed(fs) ==
    /\ \A i, j \in DOMAIN fs : i # j => fs[i].name # fs[j].name
    /\ \A i, j \in DOMAIN fs : i < j /\ HasDefault(fs[i]) => HasDefault(fs[j])

ClassesOver(fieldSet, maxLen) ==
    {fs \in UNION {[1..k -> fieldSet] : k \in 0..maxLen} : WellFormed(fs)}

Min(a, b) == IF a < b THEN a ELSE b

\* nested fields name classes already declared; leaves are plain scalars
StructFields ==
    {Fld(n, "scalar", 0, <<>>, "MISSING", "MISSING") : n \in FieldNames}
    \cup {Fld(n, "nested", k, <<>>, "MISSING", "MISSING") :
              n \in FieldNames, k \in 1..Len(classes)}

hierconfig(fs) ==
    /\ pc = "declare"
    /\ classes' = Append(classes, fs)
    /\ UNCHANGED <<pc, call, err, args, seen, ns, cfgIn, cfg, dicts, inst, src, out,
                   shared, made>>

DeclareNested ==
    /\ Len(classes) < MaxClasses
    /\ \E fs \in ClassesOver(StructFields,
                             Min(Cardinality(FieldNames), MaxTotalFields - TotalFields)) :
           hierconfig(fs)

----------------------------------------------------------------------------
(* from_args on the class declared last: a call on an earlier class reads   *)
(* only the classes up to it, and is the call on the last class of the     *)
(* state reached before the later ones were declared                       *)

Argvs(registered) ==
    LET Supplied(i) == IF registered[i].action = "bool" THEN {"True", "False"}
                       ELSE {"v1"}
        Picks == {S \in SUBSET DOMAIN registered : Cardinality(S) <= MaxSupplied}
    IN  UNION {{f \in [S -> {"True", "False", "v1"}] : \A i \in S : f[i] \in Supplied(i)} :
                   S \in Picks}

from_args(c, argv, p) ==
    LET items == parse_args(p.args, argv)
        config == _convert_namespace_to_dict(items)
        b == from_dict(c, config.val)
    IN  /\ args' = p.args
        /\ seen' = p.seen
        /\ ns' = items
        /\ out' = config.val
        /\ IF config.err # "none"
           THEN /\ err' = config.err
                /\ UNCHANGED <<cfgIn, cfg, dicts, inst>>
           ELSE /\ err' = b.err
                /\ cfgIn' = config.val
                /\ cfg' = b.cfg
                /\ dicts' = b.inner
                /\ inst' = b.inst

FromArgs ==
    /\ pc = "declare"
    /\ classes # <<>>
    /\ pc' = "done"
    /\ LET c == Len(classes)
           p == _add_arg_from_cls(NewParser, c, <<>>)
       IN  IF p.err # "none"
           THEN /\ call' = [op |-> "from_args", cls |-> c, argv |-> <<>>]
                /\ err' = p.err
                /\ args' = p.args
                /\ seen' = p.seen
                /\ UNCHANGED <<ns, out, cfgIn, cfg, dicts, inst>>
           ELSE \E argv \in Argvs(p.args) :
                    /\ call' = [op |-> "from_args", cls |-> c, argv |-> argv]
                    /\ from_args(c, argv, p)
    /\ UNCHANGED <<classes, src, shared, made>>

----------------------------------------------------------------------------
(* Flat schemas with every kind of leaf field *)

TypedFields ==
    {Fld(n, "scalar", 0, <<>>, d, "MISSING") : n \in FieldNames, d \in {"MISSING", "d0"}}
    \cup {Fld(n, "bool", 0, <<>>, d, "MISSING") :
              n \in FieldNames, d \in {"MISSING", "None", "True", "False"}}
    \cup {Fld(n, "list", 0, <<"str">>, "MISSING", f) :
              n \in FieldNames, f \in {"MISSING", "f0"}}
    \cup {Fld(n, "tuple", 0, t, "MISSING", "MISSING") :
              n \in FieldNames, t \in {<<"int", "int">>, <<"int", "str">>}}

DeclareFlat ==
    /\ classes = <<>>
    /\ \E fs \in ClassesOver(TypedFields, MaxFlatFields) : hierconfig(fs)

----------------------------------------------------------------------------
(* from_dict and to_dict called directly *)

DictNames == {<<"a">>, <<"x", "_", "y">>}

\* nested schemas whose leaves may carry a default
DefaultedFields ==
    {Fld(n, "scalar", 0, <<>>, d, "MISSING") : n \in DictNames, d \in {"MISSING", "d0"}}
    \cup {Fld(n, "nested", k, <<>>, "MISSING", "MISSING") :
              n \in DictNames, k \in 1..Len(classes)}

DeclareDefaulted ==
    /\ Len(classes) < MaxClasses
    /\ \E fs \in ClassesOver(DefaultedFields,
                             Min(Cardinality(DictNames), MaxTotalFields - TotalFields)) :
           hierconfig(fs)

\* the dicts a caller may hand to from_dict for class c: each leaf entry
\* present or absent, each nested entry a dict for its class, a leaf or absent
RECURSIVE InputsFor(_)
InputsFor(c) ==
    LET fs == classes[c]
        Options(f) == IF is_config_class(f)
                      THEN InputsFor(f.cls) \cup {NoValue, Leaf("v1")}
                      ELSE {NoValue, Leaf("v1")}
        Rows == {g \in [DOMAIN fs -> UNION {Options(fs[i]) : i \in DOMAIN fs}] :
                     \A i \in DOMAIN fs : g[i] \in Options(fs[i])}
        Entry(g, n) == g[CHOOSE i \in DOMAIN fs : fs[i].name = n]
    IN  {Map([n \in {fs[i].name : i \in {j \in DOMAIN fs : g[j] # NoValue}} |->
                  Entry(g, n)]) : g \in Rows}

FromDictOn(c, config) ==
    LET b == from_dict(c, config)
    IN  /\ call' = [op |-> "from_dict", cls |-> c, argv |-> <<>>]
        /\ err' = b.err
        /\ cfgIn' = config
        /\ cfg' = b.cfg
        /\ dicts' = b.inner
        /\ inst' = b.inst

FromDict ==
    /\ classes # <<>>
    /\ \/ /\ pc = "declare"
          /\ pc' = "built"
          /\ \E config \in InputsFor(Len(classes)) : FromDictOn(Len(classes), config)
       \/ /\ pc = "dumped"
          /\ pc' = "rebuilt"
          /\ FromDictOn(Len(classes), cfg)
    /\ UNCHANGED <<classes, args, seen, ns, src, out, shared, made>>

ToDict ==
    /\ pc = "built"
    /\ err = "none"
    /\ pc' = "dumped"
    /\ call' = [op |-> "to_dict", cls |-> Len(classes), argv |-> <<>>]
    /\ src' = inst
    /\ cfg' = to_dict(inst)
    /\ UNCHANGED <<classes, err, args, seen, ns, cfgIn, dicts, inst, out, shared, made>>

----------------------------------------------------------------------------
(* _convert_namespace_to_dict called on a namespace the caller filled *)

FlatKeys ==
    {<<"a">>, <<"b">>, <<"a", ".", "a">>, <<"a", ".", "b">>, <<"b", ".", "a">>,
     <<"a", ".", "b", ".", "a">>}

FlatValues == {"v1", "v2"}

SetAttrStep ==
    /\ pc = "declare"
    /\ classes = <<>>
    /\ \E key \in FlatKeys, value \in FlatValues :
           /\ HasAttr(ns, key) \/ Len(ns) < MaxItems
           /\ ns' = SetAttr(ns, key, Leaf(value))
    /\ UNCHANGED <<classes, pc, call, err, args, seen, cfgIn, cfg, dicts, inst, src, out,
                   shared, made>>

Convert ==
    /\ pc = "declare"
    /\ classes = <<>>
    /\ pc' = "done"
    /\ call' = [op |-> "convert", cls |-> 0, argv |-> <<>>]
    /\ LET r == _convert_namespace_to_dict(ns)
       IN  /\ err' = r.err
           /\ out' = r.val
    /\ UNCHANGED <<classes, args, seen, ns, cfgIn, cfg, dicts, inst, src, shared, made>>

----------------------------------------------------------------------------
(* config_field: metadata = {} is one dict object, made when the function *)
(* is defined and shared by every call that does not pass metadata         *)

HelpArgs == {"None", "h1", "h2"}
ChoicesArgs == {"None", "c1"}

\* the dict objects: 0 is the default argument, the others are dicts that
\* callers passed as metadata
NewHeap == <<>>
DefaultMetadata == 0

Deref(heap, ref) == IF ref \in DOMAIN heap THEN heap[ref] ELSE <<>>

\* config_field(help, choices, metadata): the two assignments write into the
\* dict object itself; dataclasses.field keeps a read-only view of that object
config_field(heap, help, choices, ref) ==
    LET m0 == Deref(heap, ref)
        m1 == IF help # "None" THEN Put(m0, "help", help) ELSE m0
        m2 == IF choices # "None" THEN Put(m1, "choices", choices) ELSE m1
    IN  Put(heap, ref, m2)

\* _get_metadata(field, key): field.metadata.get(key), read through the view
_get_metadata(heap, field, key) ==
    IF key \in DOMAIN Deref(heap, field.metadata) THEN Deref(heap, field.metadata)[key]
    ELSE "None"

ConfigField ==
    /\ pc = "declare"
    /\ classes = <<>>
    /\ Len(made) < MaxCalls
    /\ \E help \in HelpArgs, choices \in ChoicesArgs, explicit \in BOOLEAN :
           LET ref == IF explicit THEN Len(made) + 1 ELSE DefaultMetadata
           IN  /\ shared' = config_field(shared, help, choices, ref)
               /\ made' = Append(made, [help |-> help, choices |-> choices,
                                        explicit |-> explicit, metadata |-> ref])
    /\ UNCHANGED <<classes, pc, call, err, args, seen, ns, cfgIn, cfg, dicts, inst, src, out>>

----------------------------------------------------------------------------

Init ==
    /\ classes = <<>>
    /\ pc = "declare"
    /\ call = [op |-> "none", cls |-> 0, argv |-> <<>>]
    /\ err = "none"
    /\ args = <<>>
    /\ seen = {}
    /\ ns = <<>>
    /\ cfgIn = NoValue
    /\ cfg = NoValue
    /\ dicts = <<>>
    /\ inst = NoValue
    /\ src = NoValue
    /\ out = NoValue
    /\ shared = NewHeap
    /\ made = <<>>

Next == DeclareNested \/ FromArgs

Spec == Init /\ [][Next]_vars

NextTypes == DeclareFlat \/ FromArgs

SpecTypes == Init /\ [][NextTypes]_vars

NextDict == DeclareDefaulted \/ FromDict \/ ToDict

SpecDict == Init /\ [][NextDict]_vars

NextUnflatten == SetAttrStep \/ Convert

SpecUnflatten == Init /\ [][NextUnflatten]_vars

NextField == ConfigField

SpecField == Init /\ [][NextField]_vars

----------------------------------------------------------------------------
(* What the claims speak of *)

\* the paths (field names from the root) of the leaves of class c, depth
\* first in declaration order
RECURSIVE LeafPathsFrom(_, _, _)
LeafPathsFrom(c, i, prefix) ==
    IF i > Len(classes[c]) THEN <<>>
    ELSE LET f == classes[c][i]
             here == IF f.kind = "nested"
                     THEN LeafPathsFrom(f.cls, 1, Append(prefix, f.name))
                     ELSE <<Append(prefix, f.name)>>
         IN  here \o LeafPathsFrom(c, i + 1, prefix)

LeafPaths(c) == LeafPathsFrom(c, 1, <<>>)

\* the paths of the nested-schema fields below class c
RECURSIVE NestedPathsFrom(_, _)
NestedPathsFrom(c, prefix) ==
    UNION {{Append(prefix, classes[c][i].name)}
               \cup NestedPathsFrom(classes[c][i].cls, Append(prefix, classes[c][i].name)) :
               i \in {j \in DOMAIN classes[c] : classes[c][j].kind = "nested"}}

Hyphenated(name) == [i \in DOMAIN name |-> IF name[i] = "_" THEN "-" ELSE name[i]]

Last(path) == path[Len(path)]
Front(path) == SubSeq(path, 1, Len(path) - 1)

\* the value found by following path through dicts and instances
RECURSIVE ValueAt(_, _)
ValueAt(x, path) ==
    IF path = <<>> THEN x
    ELSE IF x.t \in {"map", "inst"} /\ Head(path) \in DOMAIN x.m
    THEN ValueAt(x.m[Head(path)], Tail(path))
    ELSE NoValue

RECURSIVE LeafCount(_)
LeafCount(x) ==
    IF x.t \notin {"map", "inst"} THEN 1
    ELSE LET RECURSIVE Sum(_)
             Sum(K) == IF K = {} THEN 0
                       ELSE LET k == CHOOSE k \in K : TRUE
                            IN  LeafCount(x.m[k]) + Sum(K \ {k})
         IN  Sum(DOMAIN x.m)

FlattenCalled == call.op = "from_args"
\* only the flattening pass raises AssertionError
FlattenCompleted == FlattenCalled /\ err # "AssertionError"

\* C1: whenever the parser was generated and the command line parsed,
\* from_args returns an instance, and each leaf of it equals the value the
\* parser stored under the leaf's dotted key.
C1_RoundTrip ==
    FlattenCompleted =>
        /\ err = "none"
        /\ \A i \in DOMAIN ns : ValueAt(inst, Split(ns[i][1], Dot)) = ns[i][2]

\* C2: after a flattening pass that completes, the registered arguments are
\* exactly the leaves, one each in depth-first order, each under the dotted
\* key of its path; no nested-schema field has an argument; flags are
\* pairwise distinct and dotted keys are pairwise distinct.
C2_OneFlagOneKey ==
    FlattenCompleted =>
        LET L == LeafPaths(call.cls)
        IN  /\ Len(args) = Len(L)
            /\ \A i \in DOMAIN args : args[i].dest = Join(L[i], Dot)
            /\ \A i \in DOMAIN args :
                   Split(args[i].dest, Dot) \notin NestedPathsFrom(call.cls, <<>>)
            /\ \A i, j \in DOMAIN args :
                   i # j => args[i].flag # args[j].flag /\ args[i].dest # args[j].dest

\* a completed pass over a nested schema in which a colliding leaf got a
\* path-qualified flag
C2_Witness ==
    /\ FlattenCompleted
    /\ err = "none"
    /\ Len(args) >= 2
    /\ \E i \in DOMAIN args : Dot \in Range(args[i].flag)
    /\ \E i \in DOMAIN args : Dot \notin Range(args[i].flag)

\* C3: flattening never fails on a duplicate flag, the first leaf with a
\* hyphenated name has the short flag and every later leaf with that name has
\* the flag of its full dotted path.
C3_CollisionResolved ==
    FlattenCalled =>
        /\ err # "AssertionError"
        /\ LET L == LeafPaths(call.cls)
           IN  \A i \in DOMAIN args :
                   args[i].flag =
                       <<"-", "-">> \o
                       (IF \E j \in 1..(i - 1) : Last(L[j]) = Last(L[i])
                        THEN Join(Append(Front(L[i]), Hyphenated(Last(L[i]))), Dot)
                        ELSE Hyphenated(Last(L[i])))

Root == classes[call.cls]

\* C5: flattening a schema with a boolean field whose default is unset or
\* None fails, and no boolean argument of a generated parser yields None.
C5_BoolDefault ==
    FlattenCalled =>
        /\ (\E i \in DOMAIN Root :
                /\ Root[i].kind = "bool"
                /\ Root[i].default \in {"MISSING", "None"})
           => err = "AssertionError"
        /\ \A i \in DOMAIN args :
               (args[i].action = "bool" /\ i \in DOMAIN ns) => ns[i][2].v # "None"

\* C6: with a list field that has no default and whose flag the command line
\* does not supply, from_args raises at build time and returns no instance.
C6_ListMissing ==
    (/\ FlattenCompleted
     /\ \E i \in DOMAIN Root :
            /\ Root[i].kind = "list"
            /\ ~HasDefault(Root[i])
            /\ ~\E j \in DOMAIN call.argv : args[j].dest = Root[i].name)
    => /\ err \in {"KeyError", "TypeError"}
       /\ inst = NoValue

----------------------------------------------------------------------------
(* from_dict and to_dict *)

\* x is an instance of class c whose nested-schema fields hold instances of
\* their declared classes, at every depth, and whose other fields hold leaves
RECURSIVE WellBuilt(_, _)
WellBuilt(x, c) ==
    /\ IsInst(x)
    /\ x.c = c
    /\ DOMAIN x.m = FieldNamesOf(c)
    /\ \A i \in DOMAIN classes[c] :
           IF classes[c][i].kind = "nested"
           THEN WellBuilt(x.m[classes[c][i].name], classes[c][i].cls)
           ELSE IsLeaf(x.m[classes[c][i].name])

\* C4: from_dict(to_dict(C)) returns an instance equal to C, whose nested
\* fields hold instances of the declared nested classes, not raw dicts.
C4_DictRoundTrip ==
    pc = "rebuilt" =>
        /\ err = "none"
        /\ inst = src
        /\ WellBuilt(inst, call.cls)

\* a round trip of an instance nested two deep, one leaf of which came from
\* its default
C4_Witness ==
    /\ pc = "rebuilt"
    /\ err = "none"
    /\ \E p \in {<<n1, n2>> : n1 \in DictNames, n2 \in DictNames} :
           IsInst(ValueAt(src, p))
    /\ \E n \in DOMAIN src.m :
           n \notin DOMAIN cfgIn.m \/ (IsLeaf(src.m[n]) /\ src.m[n].v = "d0")

\* the instance the dict m describes for class c, built bottom-up
RECURSIVE BuiltFrom(_, _)
BuiltFrom(c, m) ==
    Instance(c, [n \in FieldNamesOf(c) |->
                     IF FieldNamed(c, n).kind = "nested"
                     THEN BuiltFrom(FieldNamed(c, n).cls, m.m[n])
                     ELSE IF n \in DOMAIN m.m THEN m.m[n]
                     ELSE Leaf(FieldNamed(c, n).default)])

\* the class of the nested-schema field at path p below class c
RECURSIVE ClassAt(_, _)
ClassAt(c, p) ==
    IF p = <<>> THEN c ELSE ClassAt(FieldNamed(c, Head(p)).cls, Tail(p))

\* dict after is dict before with each nested-schema entry replaced by the
\* instance built from it
ReplacedInPlace(before, after, c) ==
    /\ IsMap(after)
    /\ DOMAIN after.m = DOMAIN before.m
    /\ \A n \in DOMAIN before.m :
           IF FieldNamed(c, n).kind = "nested"
           THEN /\ after.m[n] = BuiltFrom(FieldNamed(c, n).cls, before.m[n])
                /\ WellBuilt(after.m[n], FieldNamed(c, n).cls)
           ELSE after.m[n] = before.m[n]

\* C10: when from_dict returns, the caller's dict has the keys it had; the
\* entry of each nested-schema field is the sub-instance built from the old
\* entry and is the one the returned instance holds, every other entry is
\* unchanged; and the same holds of the dict at each nested-schema path.
C10_InPlace ==
    (call.op = "from_dict" /\ err = "none") =>
        /\ ReplacedInPlace(cfgIn, cfg, call.cls)
        /\ \A n \in DOMAIN cfg.m : cfg.m[n] = inst.m[n]
        /\ DOMAIN dicts = NestedPathsFrom(call.cls, <<>>)
        /\ \A p \in DOMAIN dicts :
               ReplacedInPlace(ValueAt(cfgIn, p), dicts[p], ClassAt(call.cls, p))

\* from_dict returned for a dict with a leaf entry, a nested entry that itself
\* has a nested entry, and the caller's dict now differs from what it was
C10_Witness ==
    /\ call.op = "from_dict"
    /\ err = "none"
    /\ cfg # cfgIn
    /\ \E n \in DOMAIN cfgIn.m : IsLeaf(cfgIn.m[n])
    /\ \E n \in DOMAIN cfgIn.m :
           /\ IsMap(cfgIn.m[n])
           /\ \E k \in DOMAIN cfgIn.m[n].m : IsMap(cfgIn.m[n].m[k])

----------------------------------------------------------------------------
(* _convert_namespace_to_dict *)

IsProperPrefix(p, q) == Len(p) < Len(q) /\ SubSeq(q, 1, Len(p)) = p

KeyPath(item) == Split(item[1], Dot)

DisjointPaths(items) ==
    \A i, j \in DOMAIN items : ~IsProperPrefix(KeyPath(items[i]), KeyPath(items[j]))

Orders(n) == {p \in [1..n -> 1..n] : \A i, j \in 1..n : i # j => p[i] # p[j]}

\* C7: for a namespace whose keys have disjoint paths, the conversion gives
\* the same nested dict for every order of the entries, each value sits at
\* the path its key splits into, and the dict holds nothing else.
C7_OrderIndependent ==
    (call.op = "convert" /\ DisjointPaths(ns)) =>
        /\ err = "none"
        /\ \A p \in Orders(Len(ns)) :
               _convert_namespace_to_dict([i \in 1..Len(ns) |-> ns[p[i]]]) = Ok(out)
        /\ \A i \in DOMAIN ns : ValueAt(out, KeyPath(ns[i])) = ns[i][2]
        /\ LeafCount(out) = Len(ns)

\* a conversion of several entries, two of them under the same first segment
C7_Witness ==
    /\ call.op = "convert"
    /\ DisjointPaths(ns)
    /\ err = "none"
    /\ Len(ns) >= 3
    /\ \E i, j \in DOMAIN ns :
           /\ i # j
           /\ Len(KeyPath(ns[i])) >= 2
           /\ Len(KeyPath(ns[j])) >= 2
           /\ KeyPath(ns[i])[1] = KeyPath(ns[j])[1]

\* C8: when one key's path is a proper prefix of another's, the conversion
\* raises, whatever the order of the entries.
C8_AmbiguousPathFails ==
    (call.op = "convert" /\ ~DisjointPaths(ns)) => err # "none"

----------------------------------------------------------------------------
(* config_field *)

\* C9: when no call passed metadata, a returned field's metadata has a help
\* (choices) entry only if the call that returned it passed help (choices).
C9_CallsIndependent ==
    (\A i \in DOMAIN made : ~made[i].explicit) =>
        \A i \in DOMAIN made :
            /\ _get_metadata(shared, made[i], "help") # "None" => made[i].help # "None"
            /\ _get_metadata(shared, made[i], "choices") # "None"
                   => made[i].choices # "None"

====
